---- MODULE Spec2Model ----
(***************************************************************************)
(* A model of doppelmark's duplicate-marking core:                         *)
(*   - readPair.addRead          (the pair assembler),                     *)
(*   - ParseLocation             (the read-name location parser),          *)
(*   - opticalDistance           (distance between two locations),         *)
(*   - addOpticalDistances       (the optical distance histogram),         *)
(*   - clearDupFlagTags          (the tag sanitizer).                      *)
(* Strings of the program are sequences of one-character strings, so that  *)
(* splitting, parsing and formatting are computed and not assumed.         *)
(***************************************************************************)
EXTENDS Integers, Sequences, FiniteSets, Bags, TLC

VARIABLES
    pc,           \* position of the running operation
    records,      \* pair assembler: the sam.Records, by pointer
    pairs,        \* pair assembler: the readPair objects
    lastCall,     \* pair assembler: arguments of the latest addRead call
    fields,       \* parser: the fields the read name was written from
    qname,        \* parser: the read name, a string
    location,     \* parser: what ParseLocation returned
    record,       \* sanitizer: the record (Flags, AuxFields)
    origRecord,   \* sanitizer: the record as it was before the call
    group,        \* optical: the duplicate group, its entries by file index
    opts,         \* optical: Opts (OpticalHistogramMax, OpticalHistogram)
    order,        \* optical: originalDuplicates as passed to each run
    metrics,      \* optical: what each run recorded, or its failure
    locA,         \* distance: location a
    locB,         \* distance: location b
    dist          \* distance: opticalDistance(a,b) and opticalDistance(b,a)

pairVars == <<records, pairs, lastCall>>
parseVars == <<fields, qname, location>>
tagVars == <<record, origRecord>>
opticalVars == <<group, opts, order, metrics>>
distVars == <<locA, locB, dist>>
vars == <<pc, pairVars, parseVars, tagVars, opticalVars, distVars>>

\* The value of the variables of the components a specification leaves out.
Unused == <<>>

PairIdle == records = Unused /\ pairs = Unused /\ lastCall = Unused
ParseIdle == fields = Unused /\ qname = Unused /\ location = Unused
TagIdle == record = Unused /\ origRecord = Unused
OpticalIdle == group = Unused /\ opts = Unused /\ order = Unused /\ metrics = Unused
DistIdle == locA = Unused /\ locB = Unused /\ dist = Unused

(***************************************************************************)
(* Bounds.                                                                 *)
(***************************************************************************)
MaxPos == 1        \* unclipped 5' positions are 0..MaxPos
MaxFileIdx == 1    \* file indices given to addRead are 0..MaxFileIdx
MaxFields == 8     \* read names have 1..MaxFields fields
MaxCoord == 2      \* X and Y of two locations are -MaxCoord..MaxCoord
MaxTags == 3       \* generated auxiliary tag lists have 0..MaxTags tags
MaxGroup == 3      \* duplicate groups have 1..MaxGroup entries
MaxCap == 2        \* OpticalHistogramMax is -1..MaxCap

(***************************************************************************)
(* Pair assembler: readPair and addRead.                                   *)
(***************************************************************************)
\* Two sam.Record pointers; "nil" is the nil pointer.
ReadPtrs == {"A", "B"}
\* Reference ids: -1 is the id of an unmapped read's (nil) reference.
RefIds == {-1, 0}
Positions == 0..MaxPos
FileIdxs == 0..MaxFileIdx
PairIds == {"p", "q"}

\* newRead.Ref.ID() and bam.UnclippedFivePrimePosition(newRead).
RefID(r) == records[r].refId
UnclippedFivePrimePosition(r) == records[r].u5

\* A readPair holding one read: right is nil and rightFileIdx is 0.
singleRead(r, fileIdx) ==
    [left |-> r, right |-> "nil", leftFileIdx |-> fileIdx, rightFileIdx |-> 0]

\* Mutants of the ordering condition.
NewReadSortsFirstNoPosition(p, newRead, fileIdx) ==
    \/ RefID(newRead) < RefID(p.left)
    \/ /\ RefID(newRead) = RefID(p.left)
       /\ fileIdx < p.leftFileIdx

NewReadSortsFirstNoFileIdx(p, newRead, fileIdx) ==
    \/ RefID(newRead) < RefID(p.left)
    \/ /\ RefID(newRead) = RefID(p.left)
       /\ UnclippedFivePrimePosition(newRead) < UnclippedFivePrimePosition(p.left)

\* The condition under which the new read becomes left.
NewReadSortsFirst(p, newRead, fileIdx) ==
    \/ RefID(newRead) < RefID(p.left)
    \/ /\ RefID(newRead) = RefID(p.left)
       /\ UnclippedFivePrimePosition(newRead) < UnclippedFivePrimePosition(p.left)
    \/ /\ RefID(newRead) = RefID(p.left)
       /\ UnclippedFivePrimePosition(newRead) = UnclippedFivePrimePosition(p.left)
       /\ fileIdx < p.leftFileIdx

\* The assignments of addRead once the third-read check has passed.
orderPair(p, newRead, fileIdx) ==
    IF NewReadSortsFirst(p, newRead, fileIdx)
    THEN [left |-> newRead, leftFileIdx |-> fileIdx,
          right |-> p.left, rightFileIdx |-> p.leftFileIdx]
    ELSE [left |-> p.left, leftFileIdx |-> p.leftFileIdx,
          right |-> newRead, rightFileIdx |-> fileIdx]

\* Mutant: the third-read check is missing.
addReadNoCheck(p, newRead, fileIdx) ==
    [pair |-> orderPair(p, newRead, fileIdx), fatal |-> FALSE]

\* addRead: the pair afterwards, and whether log.Fatalf ended the process.
addRead(p, newRead, fileIdx) ==
    IF p.right # "nil"
    THEN [pair |-> p, fatal |-> TRUE]
    ELSE [pair |-> orderPair(p, newRead, fileIdx), fatal |-> FALSE]

\* Pair p starts with read A, pair q with read B.
InitPair ==
    /\ pc = "pairing"
    /\ records \in [ReadPtrs -> [refId : RefIds, u5 : Positions]]
    /\ \E a \in FileIdxs, b \in FileIdxs :
          pairs = [i \in PairIds |->
                     IF i = "p" THEN singleRead("A", a) ELSE singleRead("B", b)]
    /\ lastCall = [pair |-> "none", read |-> "nil", fileIdx |-> 0]
    /\ ParseIdle /\ TagIdle /\ OpticalIdle /\ DistIdle

AddRead(i, newRead, fileIdx) ==
    /\ pc = "pairing"
    /\ LET r == addRead(pairs[i], newRead, fileIdx)
       IN  /\ pairs' = [pairs EXCEPT ![i] = r.pair]
           /\ pc' = IF r.fatal THEN "pair fatal" ELSE "pairing"
    /\ lastCall' = [pair |-> i, read |-> newRead, fileIdx |-> fileIdx]
    /\ UNCHANGED <<records, parseVars, tagVars, opticalVars, distVars>>

NextPair == \E i \in PairIds, newRead \in ReadPtrs, fileIdx \in FileIdxs :
               AddRead(i, newRead, fileIdx)

SpecPair == InitPair /\ [][NextPair]_vars

\* The ordering key of a read held with a file index.
OrderKey(r, fileIdx) == <<records[r].refId, records[r].u5, fileIdx>>
KeyLess(k, l) ==
    \/ k[1] < l[1]
    \/ k[1] = l[1] /\ k[2] < l[2]
    \/ k[1] = l[1] /\ k[2] = l[2] /\ k[3] < l[3]
Complete(p) == p.right # "nil"
LeftKey(p) == OrderKey(p.left, p.leftFileIdx)
RightKey(p) == OrderKey(p.right, p.rightFileIdx)

\* C1: a step that calls addRead on a single-read pair leaves left not after
\* right under (reference id, unclipped 5' position, file index), and the
\* pair then holds exactly the old left and the new read, each with its own
\* file index.
C1_LeftPrecedesRight ==
    [][\A i \in PairIds :
         (pairs[i].right = "nil" /\ lastCall'.pair = i /\ lastCall' # lastCall) =>
            LET old == <<pairs[i].left, pairs[i].leftFileIdx>>
                new == <<lastCall'.read, lastCall'.fileIdx>>
                l == <<pairs'[i].left, pairs'[i].leftFileIdx>>
                r == <<pairs'[i].right, pairs'[i].rightFileIdx>>
            IN  /\ pc' = "pairing"
                /\ ~KeyLess(RightKey(pairs'[i]), LeftKey(pairs'[i]))
                /\ (l = old /\ r = new) \/ (l = new /\ r = old)]_vars

\* C1 witness: a pair completed by a new read that moved the old left right.
C1_Witness ==
    /\ Complete(pairs["p"])
    /\ pairs["p"].left = "B" /\ pairs["p"].right = "A"
    /\ KeyLess(LeftKey(pairs["p"]), RightKey(pairs["p"]))

SameReads(p, q) ==
    {<<p.left, p.leftFileIdx>>, <<p.right, p.rightFileIdx>>} =
    {<<q.left, q.leftFileIdx>>, <<q.right, q.rightFileIdx>>}
BothOrders ==
    /\ Complete(pairs["p"]) /\ Complete(pairs["q"])
    /\ SameReads(pairs["p"], pairs["q"])
    /\ {pairs["p"].left, pairs["p"].right} = {"A", "B"}

\* C2 as claimed: pair p (read A first, then B) and pair q (read B first,
\* then A) holding the same two reads with the same file indices have the
\* same left, right, leftFileIdx and rightFileIdx.
C2_OrderIndependent_Original == BothOrders => pairs["p"] = pairs["q"]

\* C2 amended: the same, for two reads whose keys (reference id, unclipped 5'
\* position, file index) differ; two reads with equal keys stay in arrival
\* order.
C2_OrderIndependent ==
    (BothOrders /\ LeftKey(pairs["p"]) # RightKey(pairs["p"])) =>
        pairs["p"] = pairs["q"]

\* C2 witness: both arrival orders completed, with distinct keys, and the
\* later read of pair q became left.
C2_Witness ==
    /\ BothOrders
    /\ LeftKey(pairs["p"]) # RightKey(pairs["p"])
    /\ pairs["q"].left = "A"
    /\ pairs["p"].leftFileIdx # pairs["p"].rightFileIdx
    /\ RefID("A") = RefID("B")
    /\ UnclippedFivePrimePosition("A") = UnclippedFivePrimePosition("B")

\* C8: a step that calls addRead on a pair whose right is present ends the
\* process (fatal) and leaves every pair as it was.
C8_ThirdReadFatal ==
    [][\A i \in PairIds :
         (pairs[i].right # "nil" /\ lastCall'.pair = i /\ pc = "pairing"
            /\ <<pc', lastCall', pairs'>> # <<pc, lastCall, pairs>>) =>
            (pc' = "pair fatal" /\ pairs' = pairs)]_vars

\* C8 witness: the process ended on a third read, the pair still complete.
C8_Witness ==
    /\ pc = "pair fatal"
    /\ lastCall.pair = "p"
    /\ Complete(pairs["p"])
    /\ pairs["p"].left # lastCall.read

(***************************************************************************)
(* Strings: sequences of one-character strings, and the library functions  *)
(* the parser uses on them.                                                *)
(***************************************************************************)
DigitChars == <<"0", "1", "2", "3", "4", "5", "6", "7", "8", "9">>
Digits == {DigitChars[i] : i \in 1..10}
DigitVal(c) == (CHOOSE i \in 1..10 : DigitChars[i] = c) - 1

\* Go's integer division and remainder truncate toward zero (b > 0 here).
Quo(a, b) == IF a >= 0 THEN a \div b ELSE -((-a) \div b)
Rem(a, b) == a - b * Quo(a, b)

\* strings.Index of a one-character separator: 0 when absent (1-based).
IndexOf(s, c) ==
    IF \E i \in 1..Len(s) : s[i] = c
    THEN CHOOSE i \in 1..Len(s) : s[i] = c /\ \A j \in 1..(i - 1) : s[j] # c
    ELSE 0

\* strings.Split(s, sep): the text between separators, empty fields kept.
RECURSIVE Split(_, _)
Split(s, sep) ==
    LET m == IndexOf(s, sep)
    IN  IF m = 0 THEN <<s>>
        ELSE <<SubSeq(s, 1, m - 1)>> \o Split(SubSeq(s, m + 1, Len(s)), sep)

\* The read name written from its fields.
RECURSIVE Join(_, _)
Join(fs, sep) ==
    IF Len(fs) = 0 THEN <<>>
    ELSE IF Len(fs) = 1 THEN fs[1]
    ELSE fs[1] \o <<sep>> \o Join(Tail(fs), sep)

strings_HasPrefix(s, c) == Len(s) >= 1 /\ s[1] = c
strings_Contains(s, c) == \E i \in 1..Len(s) : s[i] = c

RECURSIVE DecimalValue(_)
DecimalValue(s) ==
    IF Len(s) = 0 THEN 0
    ELSE 10 * DecimalValue(SubSeq(s, 1, Len(s) - 1)) + DigitVal(s[Len(s)])

\* strconv.Atoi: an optional sign and at least one digit, nothing else; on a
\* syntax error the value is 0.  (Range errors need 19 digits or more; the
\* tokens here are shorter.)
Atoi(s) ==
    LET signed == Len(s) >= 1 /\ s[1] \in {"+", "-"}
        body == IF signed THEN Tail(s) ELSE s
    IN  IF Len(body) = 0 \/ \E i \in 1..Len(body) : body[i] \notin Digits
        THEN [err |-> TRUE, val |-> 0]
        ELSE [err |-> FALSE,
              val |-> IF signed /\ s[1] = "-" THEN -DecimalValue(body)
                      ELSE DecimalValue(body)]

\* strconv.Itoa.
RECURSIVE FormatDecimal(_)
FormatDecimal(n) ==
    IF n < 10 THEN <<DigitChars[n + 1]>>
    ELSE FormatDecimal(n \div 10) \o <<DigitChars[(n % 10) + 1]>>
Itoa(n) == IF n < 0 THEN <<"-">> \o FormatDecimal(-n) ELSE FormatDecimal(n)

(***************************************************************************)
(* Location parser: ParseLocation.                                         *)
(***************************************************************************)
IlluminaReadName5Fields == 5
IlluminaReadName5FieldsTileField == 2
IlluminaReadName7Fields == 7
IlluminaReadName7FieldsTileField == 4
IlluminaReadName8Fields == 8
IlluminaReadName8FieldsTileField == 4

\* The result of a call that ended in log.Fatalf: no location.
Fatal == [fatal |-> TRUE]
Returned(loc) == [fatal |-> FALSE, loc |-> loc]

\* The zero PhysicalLocation.
ZeroLocation ==
    [Lane |-> <<>>, Surface |-> <<>>, Swath |-> <<>>, Section |-> <<>>,
     TileName |-> <<>>, TileNumber |-> 0, X |-> 0, Y |-> 0]

\* Mutant: the tile is taken to be the third field from the end.
TileIdxThirdFromEnd(n) ==
    IF n \in {IlluminaReadName5Fields, IlluminaReadName7Fields,
              IlluminaReadName8Fields}
    THEN n - 3 ELSE -1

\* The switch on len(fields): the 0-based tile field, -1 for the default.
TileIdx(n) ==
    IF n = IlluminaReadName5Fields THEN IlluminaReadName5FieldsTileField
    ELSE IF n = IlluminaReadName7Fields THEN IlluminaReadName7FieldsTileField
    ELSE IF n = IlluminaReadName8Fields THEN IlluminaReadName8FieldsTileField
    ELSE -1

\* Mutant: column weighted by 100.
GeneMindTileBy100(loc) ==
    LET row == Atoi(SubSeq(loc.TileName, 2, 4))
        col == Atoi(SubSeq(loc.TileName, 6, Len(loc.TileName)))
    IN  IF row.err \/ col.err THEN Fatal
        ELSE Returned([loc EXCEPT !.TileNumber = 100 * row.val + col.val])

\* The GeneMind branch: TileName[1:4] is the row, TileName[5:] the column.
GeneMindTile(loc) ==
    LET row == Atoi(SubSeq(loc.TileName, 2, 4))
        col == Atoi(SubSeq(loc.TileName, 6, Len(loc.TileName)))
    IN  IF row.err \/ col.err THEN Fatal
        ELSE Returned([loc EXCEPT !.TileNumber = 1000 * row.val + col.val])

\* Mutant: the 5-digit decoding starts at 9999.
IlluminaTileFrom9999(loc, TileName) ==
    IF TileName >= 9999
    THEN [loc EXCEPT !.Surface = Itoa(Quo(TileName, 10000)),
                     !.Swath = Itoa(Quo(Rem(TileName, 10000), 1000)),
                     !.Section = Itoa(Quo(Rem(TileName, 1000), 100)),
                     !.TileNumber = Rem(TileName, 100)]
    ELSE [loc EXCEPT !.Surface = Itoa(Quo(TileName, 1000)),
                     !.Swath = Itoa(Quo(Rem(TileName, 1000), 100)),
                     !.TileNumber = Rem(TileName, 100)]

\* The 4 or 5 digit branch, for TileName < 100000.
IlluminaTile(loc, TileName) ==
    IF TileName > 9999
    THEN [loc EXCEPT !.Surface = Itoa(Quo(TileName, 10000)),
                     !.Swath = Itoa(Quo(Rem(TileName, 10000), 1000)),
                     !.Section = Itoa(Quo(Rem(TileName, 1000), 100)),
                     !.TileNumber = Rem(TileName, 100)]
    ELSE [loc EXCEPT !.Surface = Itoa(Quo(TileName, 1000)),
                     !.Swath = Itoa(Quo(Rem(TileName, 1000), 100)),
                     !.TileNumber = Rem(TileName, 100)]

\* The tile-token branches.  The error of strconv.Atoi(location.TileName) is
\* dropped, so a token that is no integer has TileName = 0.
decodeTile(loc) ==
    IF /\ Len(loc.TileName) = 8
       /\ strings_HasPrefix(loc.TileName, "R")
       /\ strings_Contains(loc.TileName, "C")
    THEN GeneMindTile(loc)
    ELSE LET TileName == Atoi(loc.TileName).val
         IN  IF TileName < 100000
             THEN Returned(IlluminaTile(loc, TileName))
             ELSE Fatal

ParseLocation(name) ==
    LET flds == Split(name, ":")
        tileIdx == TileIdx(Len(flds))
    IN  IF tileIdx = -1 THEN Fatal
        ELSE LET x == Atoi(flds[tileIdx + 2])
                 y == Atoi(flds[tileIdx + 3])
                 loc == [ZeroLocation EXCEPT !.Lane = flds[tileIdx],
                                             !.TileName = flds[tileIdx + 1],
                                             !.X = x.val, !.Y = y.val]
             IN  IF x.err THEN Fatal
                 ELSE IF y.err THEN Fatal
                 ELSE decodeTile(loc)

\* Fields of read names: one field of each name is drawn from Tokens, the
\* others from Fillers.
Fillers == {<<"5">>, <<"x">>}
Tokens ==
    { <<>>, <<"-">>, <<"a", "b", "c", "d">>, <<"1", "2", "a", "4">>,
      <<"+", "1", "2", "0", "3">>, <<"-", "1", "2", "0", "3">>,
      <<"0", "1", "2", "0", "3">>,
      <<"R", "0", "0", "2", "C", "0", "0", "3">>,
      <<"R", "1", "2", "3", "C", "0", "4", "5">>,
      <<"R", "-", "0", "2", "C", "+", "0", "3">>,
      <<"R", "x", "y", "z", "C", "0", "0", "3">>,
      <<"R", "0", "0", "2", "C", "0", "x", "3">>,
      <<"R", "0", "0", "2", "0", "C", "0", "3">>,
      <<"R", "0", "0", "2", "0", "0", "0", "3">>,
      <<"X", "0", "0", "2", "C", "0", "0", "3">>,
      <<"1", "0", "0", "2", "C", "0", "0", "3">>,
      <<"R", "0", "2", "C", "0", "3">> }
    \cup { Itoa(v) : v \in {0, 7, 99, 100, 999, 1000, 1203, 9999, 10000,
                            12304, 99999, 100000, 123456, 12345678} }

InitParse ==
    /\ pc = "parse"
    /\ \E n \in 1..MaxFields :
         \E p \in 1..n, t \in Tokens, f \in [1..n -> Fillers] :
            fields = [i \in 1..n |-> IF i = p THEN t ELSE f[i]]
    /\ qname = Join(fields, ":")
    /\ location = Unused
    /\ PairIdle /\ TagIdle /\ OpticalIdle /\ DistIdle

CallParseLocation ==
    /\ pc = "parse"
    /\ location' = ParseLocation(qname)
    /\ pc' = IF location'.fatal THEN "parse fatal" ELSE "parsed"
    /\ UNCHANGED <<fields, qname, pairVars, tagVars, opticalVars, distVars>>

NextParse == CallParseLocation

SpecParse == InitParse /\ [][NextParse]_vars

\* What the claims say of a read name, stated on the fields it was written
\* from.  TilePosition is the 1-based position of the tile token.
IsInteger(s) ==
    LET body == IF Len(s) >= 1 /\ s[1] \in {"+", "-"} THEN Tail(s) ELSE s
    IN  Len(body) >= 1 /\ \A i \in 1..Len(body) : body[i] \in Digits
IntegerValue(s) == Atoi(s).val
Called == pc \in {"parsed", "parse fatal"}
FieldCountOk == Len(fields) \in {5, 7, 8}
TilePosition == IF Len(fields) = 5 THEN 3 ELSE 5
TileToken == fields[TilePosition]
XYAreIntegers ==
    IsInteger(fields[TilePosition + 1]) /\ IsInteger(fields[TilePosition + 2])
IsRCToken(t) == Len(t) = 8 /\ t[1] = "R" /\ \E i \in 1..8 : t[i] = "C"
RowColAreIntegers(t) ==
    t[5] = "C" /\ IsInteger(SubSeq(t, 2, 4)) /\ IsInteger(SubSeq(t, 6, 8))

\* C3 as claimed: ParseLocation returns a location only for a name with 5, 7
\* or 8 fields, integer X and Y fields, and a tile token that is either the
\* 8-character R...C form with numeric row and column or an integer below
\* 100000; a non-numeric tile token is fatal.
C3_MalformedIsFatal ==
    pc = "parsed" =>
        /\ FieldCountOk
        /\ XYAreIntegers
        /\ \/ IsRCToken(TileToken) /\ RowColAreIntegers(TileToken)
           \/ IsInteger(TileToken) /\ IntegerValue(TileToken) < 100000

\* C4: a name whose field count is not 5, 7 or 8 is fatal; a returned
\* location has Lane = the field before the tile token (field 2 of 5, field 4
\* of 7 or 8, zero-based), TileName = the tile token, and X, Y = the integer
\* values of the two fields after it.
C4_FieldPositions ==
    Called =>
        /\ ~FieldCountOk => location.fatal
        /\ ~location.fatal =>
              /\ FieldCountOk
              /\ location.loc.Lane = fields[TilePosition - 1]
              /\ location.loc.TileName = fields[TilePosition]
              /\ XYAreIntegers
              /\ location.loc.X = IntegerValue(fields[TilePosition + 1])
              /\ location.loc.Y = IntegerValue(fields[TilePosition + 2])

\* C4 witness: an 8-field name x:x:x:x:5:5:-1203:x parsed, with lane x,
\* tile name 5, X = 5 and Y = -1203.
C4_Witness ==
    /\ pc = "parsed"
    /\ Len(fields) = 8
    /\ fields[1] = <<"x">> /\ fields[8] = <<"x">>
    /\ location.loc.TileName = <<"5">>
    /\ location.loc.X = 5
    /\ location.loc.Y = -1203
    /\ location.loc.Lane = <<"x">>

\* C5: for a returned location whose tile token is an integer V and not the
\* R...C form: 9999 < V < 100000 gives Surface = V/10000, Swath =
\* (V%10000)/1000, Section = (V%1000)/100, TileNumber = V%100; V <= 9999 gives
\* Surface = V/1000, Swath = (V%1000)/100, TileNumber = V%100 and an empty
\* Section (quotients and remainders truncate toward zero; Surface, Swath and
\* Section are their decimal strings).
C5_NumericTile ==
    (pc = "parsed" /\ IsInteger(TileToken) /\ ~IsRCToken(TileToken)) =>
        LET V == IntegerValue(TileToken)
            loc == location.loc
        IN  /\ V < 100000
            /\ (9999 < V /\ V < 100000) =>
                  /\ loc.Surface = Itoa(Quo(V, 10000))
                  /\ loc.Swath = Itoa(Quo(Rem(V, 10000), 1000))
                  /\ loc.Section = Itoa(Quo(Rem(V, 1000), 100))
                  /\ loc.TileNumber = Rem(V, 100)
            /\ V <= 9999 =>
                  /\ loc.Surface = Itoa(Quo(V, 1000))
                  /\ loc.Swath = Itoa(Quo(Rem(V, 1000), 100))
                  /\ loc.Section = <<>>
                  /\ loc.TileNumber = Rem(V, 100)

\* C5 witness: tile 12304 decoded as surface 1, swath 2, section 3, tile 4.
C5_Witness ==
    /\ pc = "parsed"
    /\ TileToken = <<"1", "2", "3", "0", "4">>
    /\ location.loc.Surface = <<"1">>
    /\ location.loc.Swath = <<"2">>
    /\ location.loc.Section = <<"3">>
    /\ location.loc.TileNumber = 4

\* C10: for a name (of 5, 7 or 8 fields) whose tile token has 8 characters,
\* begins with R and contains C, the call is fatal exactly when X, Y, the row
\* (characters 2-4) or the column (characters 6-8) is no integer, and
\* otherwise returns TileNumber = 1000*row + col with Surface, Swath and
\* Section empty: the numeric decoding is not applied.
C10_GeneMindTile ==
    (Called /\ FieldCountOk /\ IsRCToken(TileToken)) =>
        LET row == SubSeq(TileToken, 2, 4)
            col == SubSeq(TileToken, 6, 8)
        IN  /\ location.fatal <=>
                  ~(XYAreIntegers /\ IsInteger(row) /\ IsInteger(col))
            /\ ~location.fatal =>
                  /\ location.loc.TileNumber =
                        1000 * IntegerValue(row) + IntegerValue(col)
                  /\ location.loc.Surface = <<>>
                  /\ location.loc.Swath = <<>>
                  /\ location.loc.Section = <<>>

\* C10 witness: R002C003 gives tile number 2003.
C10_Witness ==
    /\ pc = "parsed"
    /\ TileToken = <<"R", "0", "0", "2", "C", "0", "0", "3">>
    /\ location.loc.TileNumber = 2003

(***************************************************************************)
(* Distance between two locations: opticalDistance.                        *)
(***************************************************************************)
\* int(math.Sqrt(x)) for a non-negative integer x (exact at these sizes).
IntSqrt(x) == CHOOSE r \in 0..x : r * r <= x /\ (r + 1) * (r + 1) > x

\* Mutant: the Y term subtracts a.Y from itself.
opticalDistanceSameY(a, b) ==
    IntSqrt((a.X - b.X) * (a.X - b.X) + (a.Y - a.Y) * (a.Y - a.Y))

opticalDistance(a, b) ==
    IntSqrt((a.X - b.X) * (a.X - b.X) + (a.Y - b.Y) * (a.Y - b.Y))

Coords == (-MaxCoord)..MaxCoord

InitDist ==
    /\ pc = "distance"
    /\ \E x \in Coords, y \in Coords :
          locA = [ZeroLocation EXCEPT !.X = x, !.Y = y]
    /\ \E x \in Coords, y \in Coords :
          locB = [ZeroLocation EXCEPT !.X = x, !.Y = y]
    /\ dist = Unused
    /\ PairIdle /\ ParseIdle /\ TagIdle /\ OpticalIdle

CallOpticalDistance ==
    /\ pc = "distance"
    /\ dist' = [ab |-> opticalDistance(locA, locB),
                ba |-> opticalDistance(locB, locA)]
    /\ pc' = "measured"
    /\ UNCHANGED <<locA, locB, pairVars, parseVars, tagVars, opticalVars>>

NextDist == CallOpticalDistance

SpecDist == InitDist /\ [][NextDist]_vars

\* C9: opticalDistance(a,b) = opticalDistance(b,a), and the distance is 0
\* exactly when a.X = b.X and a.Y = b.Y.
C9_SymmetricZeroIffEqual ==
    pc = "measured" =>
        /\ dist.ab = dist.ba
        /\ dist.ab = 0 <=> (locA.X = locB.X /\ locA.Y = locB.Y)

\* C9 witness: two locations one apart in X and in Y; sqrt(2) truncates to 1.
C9_Witness ==
    /\ pc = "measured"
    /\ locA.X - locB.X = 1
    /\ locB.Y - locA.Y = 1
    /\ dist.ab = 1

(***************************************************************************)
(* Tag sanitizer: clearDupFlagTags.  Its body is not among the sources;    *)
(* it is modelled from its test and its description.                       *)
(***************************************************************************)
\* sam.Duplicate, bit 10 of the 16-bit Flags.
Duplicate == 1024

RECURSIVE Pow2(_)
Pow2(n) == IF n = 0 THEN 1 ELSE 2 * Pow2(n - 1)
Bit(f, b) == (f \div Pow2(b)) % 2

\* The tags that carry duplicate-marking metadata.
DupTags == {"DI", "DS", "DT", "DU"}

\* Mutant: removing tag i in place and then advancing i skips the tag that
\* moved into position i.
RECURSIVE removeSkipping(_)
removeSkipping(aux) ==
    IF Len(aux) = 0 THEN <<>>
    ELSE IF aux[1].tag \in DupTags
         THEN IF Len(aux) = 1 THEN <<>>
              ELSE <<aux[2]>> \o removeSkipping(SubSeq(aux, 3, Len(aux)))
         ELSE <<aux[1]>> \o removeSkipping(Tail(aux))
clearDupFlagTagsSkipping(r) ==
    [Flags |-> r.Flags - Duplicate * ((r.Flags \div Duplicate) % 2),
     AuxFields |-> removeSkipping(r.AuxFields)]

IsNotDupTag(a) == a.tag \notin DupTags
clearDupFlagTags(r) ==
    [Flags |-> r.Flags - Duplicate * ((r.Flags \div Duplicate) % 2),
     AuxFields |-> SelectSeq(r.AuxFields, IsNotDupTag)]

\* The tag list of TestClearDupFlagTags: tag i carries the value i.
TestTags == <<"RG", "DI", "VN", "DS", "SM", "DT", "PU", "DU", "XM">>
WithValues(tags) == [i \in 1..Len(tags) |-> [tag |-> tags[i], value |-> i - 1]]
TagCodes == {"RG", "XM", "DI", "DS", "DT", "DU"}
TagLists ==
    {WithValues(TestTags)} \cup
    UNION {{WithValues(t) : t \in [1..n -> TagCodes]} : n \in 0..MaxTags}
\* Flags with and without the duplicate bit (65 is paired, first of pair).
FlagValues == {0, 65, 1024, 1089, 2560, 3072, 64511, 65535}

InitTags ==
    /\ pc = "sanitize"
    /\ record \in [Flags : FlagValues, AuxFields : TagLists]
    /\ origRecord = record
    /\ PairIdle /\ ParseIdle /\ OpticalIdle /\ DistIdle

CallClearDupFlagTags ==
    /\ pc = "sanitize"
    /\ record' = clearDupFlagTags(record)
    /\ pc' = "sanitized"
    /\ UNCHANGED <<origRecord, pairVars, parseVars, opticalVars, distVars>>

NextTags == CallClearDupFlagTags

SpecTags == InitTags /\ [][NextTags]_vars

\* The positions of the tags of a list that are not duplicate tags, and the
\* k-th smallest member of a set of positions.
NthPosition(S, k) == CHOOSE i \in S : Cardinality({j \in S : j <= i}) = k
KeptPositions(aux) == {i \in 1..Len(aux) : aux[i].tag \notin {"DI", "DS", "DT", "DU"}}

\* C6: after clearDupFlagTags the duplicate bit is clear, every other flag bit
\* is as before, no DI, DS, DT or DU tag is left, and the remaining tags are
\* the other tags of the original list, with their values, in their original
\* order.
C6_ClearDupFlagTags ==
    pc = "sanitized" =>
        LET kept == KeptPositions(origRecord.AuxFields)
        IN  /\ Bit(record.Flags, 10) = 0
            /\ \A b \in (0..15) \ {10} :
                  Bit(record.Flags, b) = Bit(origRecord.Flags, b)
            /\ Len(record.AuxFields) = Cardinality(kept)
            /\ \A k \in 1..Len(record.AuxFields) :
                  record.AuxFields[k] = origRecord.AuxFields[NthPosition(kept, k)]

\* C6 witness: the record of the test, sanitized.
C6_Witness ==
    /\ pc = "sanitized"
    /\ origRecord = [Flags |-> 1089, AuxFields |-> WithValues(TestTags)]
    /\ record.Flags = 65
    /\ record.AuxFields =
          << [tag |-> "RG", value |-> 0], [tag |-> "VN", value |-> 2],
             [tag |-> "SM", value |-> 4], [tag |-> "PU", value |-> 6],
             [tag |-> "XM", value |-> 8] >>

(***************************************************************************)
(* Optical distance histogram: addOpticalDistances.                        *)
(***************************************************************************)
\* A read name L:.:T:X:Y written from its numbers.
ReadName(lane, tile, x, y) ==
    Join(<<<<"M">>, Itoa(lane), Itoa(tile), Itoa(x), Itoa(y)>>, ":")

\* A DuplicateEntry (an IndexedPair): FileIdx(), Name(), and what
\* getReadGroup(pair.Left.R) and GetR1R2Orientation(&pair) return for it.
Entry(fileIdx, name, readGroup, readGroupFound, orientation) ==
    [fileIdx |-> fileIdx, name |-> name, readGroup |-> readGroup,
     readGroupFound |-> readGroupFound, orientation |-> orientation]

\* The entries duplicate groups are drawn from; file indices are distinct.
\* Three share a bucket; one differs in lane, one in orientation, one has no
\* read group, and one has a name of two fields.
Entries ==
    { Entry(3, ReadName(1, 1203, 0, 0), "rg1", TRUE, "f1r2"),
      Entry(5, ReadName(1, 1203, 3, 4), "rg1", TRUE, "f1r2"),
      Entry(8, ReadName(1, 1203, 0, 7), "rg1", TRUE, "f1r2"),
      Entry(9, ReadName(2, 1203, 6, 8), "rg1", TRUE, "f1r2"),
      Entry(12, ReadName(1, 1203, 1, 1), "rg1", TRUE, "f2r1"),
      Entry(14, ReadName(1, 1203, 2, 2), "", FALSE, "f1r2"),
      Entry(17, <<"M", ":", "1">>, "rg1", TRUE, "f1r2") }

\* ParseLocation(dup.Name()) of each entry (a table of the function's values).
LocationOf == [e \in Entries |-> ParseLocation(e.name)]

\* The state names an entry by its file index.
FileIdxOf == {e.fileIdx : e \in Entries}
EntryAt == [f \in FileIdxOf |-> CHOOSE e \in Entries : e.fileIdx = f]
EntriesOf(ids) == [i \in 1..Len(ids) |-> EntryAt[ids[i]]]

\* The duplicate groups, and the orders in which each can be passed in.
Groups == {g \in SUBSET FileIdxOf : Cardinality(g) \in 1..MaxGroup}
RECURSIVE OrdersOf(_)
OrdersOf(g) ==
    IF g = {} THEN {<<>>}
    ELSE UNION {{<<f>> \o s : s \in OrdersOf(g \ {f})} : f \in g}

\* Mutant: the copy is not sorted.
SortByFileIdxNone(dups) == dups

\* sort.Slice by FileIdx(), ascending.
SortByFileIdx(dups) ==
    [k \in 1..Len(dups) |->
        CHOOSE d \in {dups[i] : i \in 1..Len(dups)} :
            Cardinality({i \in 1..Len(dups) : dups[i].fileIdx < d.fileIdx}) = k - 1]

\* The generator made by rand.New(rand.NewSource(seed)): its state is a
\* function of the seed alone, and each draw is a function of the state.
\* A linear congruential generator stands for the library's.
NewSource(seed) == seed % 65537
NextState(s) == (75 * s + 74) % 65537

Swap(seq, i, j) == [seq EXCEPT ![i] = seq[j], ![j] = seq[i]]

\* r.Shuffle(n, swap): for i from n-1 down to 1, j is drawn from 0..i and
\* positions i and j are swapped (0-based).
RECURSIVE ShuffleFrom(_, _, _)
ShuffleFrom(seq, i, s) ==
    IF i <= 0 THEN seq
    ELSE LET s2 == NextState(s)
             j == s2 % (i + 1)
         IN  ShuffleFrom(Swap(seq, i + 1, j + 1), i - 1, s2)
Shuffle(seq, seed) == ShuffleFrom(seq, Len(seq) - 1, NewSource(seed))

\* The duplicates as the histogram loop sees them: sorted, and shuffled when
\* OpticalHistogramMax >= 0.
arrangedDuplicates(o, originalDuplicates) ==
    LET duplicates == SortByFileIdx(originalDuplicates)
    IN  IF o.OpticalHistogramMax >= 0
        THEN Shuffle(duplicates, duplicates[1].fileIdx)
        ELSE duplicates

\* The key of the map m.
BucketKey(dup, loc) ==
    [lane |-> loc.Lane, readGroup |-> dup.readGroup,
     readGroupFound |-> dup.readGroupFound, orientation |-> dup.orientation]

\* The k-th smallest member of a set of numbers.
KthOf(S, k) == CHOOSE i \in S : Cardinality({j \in S : j <= i}) = k

\* m: for each key, the locations appended in the order of duplicates.
bucketsOf(duplicates, locs) ==
    LET n == Len(duplicates)
        keyAt(i) == BucketKey(duplicates[i], locs[i])
    IN  [k \in {keyAt(i) : i \in 1..n} |->
            LET at == {i \in 1..n : keyAt(i) = k}
            IN  [p \in 1..Cardinality(at) |-> locs[KthOf(at, p)]]]

\* Mutant: the cap bounds the outer loop only.
loopPairsCapOuter(o, locations) ==
    LET limit == IF o.OpticalHistogramMax < 0 THEN Len(locations)
                 ELSE IF o.OpticalHistogramMax < Len(locations)
                      THEN o.OpticalHistogramMax
                      ELSE Len(locations)
    IN  {ij \in (1..limit) \X (1..Len(locations)) : ij[1] < ij[2]}

\* The (i, j) of the two loops over one bucket, 1-based: i < j, both below
\* len(locations) and, when the cap is not negative, below the cap.
loopPairs(o, locations) ==
    LET limit == IF o.OpticalHistogramMax < 0 THEN Len(locations)
                 ELSE IF o.OpticalHistogramMax < Len(locations)
                      THEN o.OpticalHistogramMax
                      ELSE Len(locations)
    IN  {ij \in (1..limit) \X (1..limit) : ij[1] < ij[2]}

\* metrics.AddDistance(size, distance): one more count for (size, distance).
AddDistance(hist, size, distance) == hist (+) SetToBag({<<size, distance>>})

RECURSIVE addDistances(_, _, _, _)
addDistances(hist, size, locations, todo) ==
    IF todo = {} THEN hist
    ELSE LET ij == CHOOSE x \in todo : TRUE
         IN  addDistances(
                 AddDistance(hist, size,
                             opticalDistance(locations[ij[1]], locations[ij[2]])),
                 size, locations, todo \ {ij})

RECURSIVE addBuckets(_, _, _, _, _)
addBuckets(hist, o, size, m, keys) ==
    IF keys = {} THEN hist
    ELSE LET k == CHOOSE x \in keys : TRUE
         IN  addBuckets(addDistances(hist, size, m[k], loopPairs(o, m[k])),
                        o, size, m, keys \ {k})

\* One call of addOpticalDistances on empty metrics: whether it ended in
\* ParseLocation's log.Fatalf, and the distances it recorded.  The map is
\* iterated in an unspecified order; the recorded bag does not depend on it.
addOpticalDistances(o, originalDuplicates) ==
    LET duplicates == arrangedDuplicates(o, originalDuplicates)
        parsed == [i \in 1..Len(duplicates) |-> LocationOf[duplicates[i]]]
    IN  IF Len(o.OpticalHistogram) > 0
        THEN IF \E i \in 1..Len(duplicates) : parsed[i].fatal
             THEN [fatal |-> TRUE, recorded |-> EmptyBag]
             ELSE LET locs == [i \in 1..Len(duplicates) |-> parsed[i].loc]
                      m == bucketsOf(duplicates, locs)
                  IN  [fatal |-> FALSE,
                       recorded |-> addBuckets(EmptyBag, o, Len(duplicates),
                                               m, DOMAIN m)]
        ELSE [fatal |-> FALSE, recorded |-> EmptyBag]

Runs == {1, 2}
Pending == [fatal |-> FALSE, pending |-> TRUE]
HistogramTargets == {<<>>, <<"h">>}

\* Two runs over the same duplicate group and options; each is passed the
\* group in an order of its own.
InitOptical ==
    /\ pc = "histogram"
    /\ group \in Groups
    /\ opts \in [OpticalHistogramMax : (-1)..MaxCap,
                 OpticalHistogram : HistogramTargets]
    /\ order = [r \in Runs |-> <<>>]
    /\ metrics = [r \in Runs |-> Pending]
    /\ PairIdle /\ ParseIdle /\ TagIdle /\ DistIdle

RunAddOpticalDistances(r, ids) ==
    /\ pc = "histogram"
    /\ metrics[r] = Pending
    /\ order' = [order EXCEPT ![r] = ids]
    /\ metrics' = [metrics EXCEPT ![r] = addOpticalDistances(opts, EntriesOf(ids))]
    /\ UNCHANGED <<pc, group, opts, pairVars, parseVars, tagVars, distVars>>

NextOptical ==
    /\ pc = "histogram"
    /\ \E r \in Runs, ids \in OrdersOf(group) :
          RunAddOpticalDistances(r, ids)

SpecOptical == InitOptical /\ [][NextOptical]_vars

BothRan == metrics[1] # Pending /\ metrics[2] # Pending

\* C7: with OpticalHistogramMax >= 0 and a non-empty OpticalHistogram, two
\* runs over the same group (distinct file indices), each given the entries
\* in any order, record the same bag of (group size, distance) values.
C7_SameSampleInAnyOrder ==
    (BothRan /\ opts.OpticalHistogramMax >= 0 /\ Len(opts.OpticalHistogram) > 0) =>
        metrics[1] = metrics[2]

\* C7 witness: three entries of one bucket under a cap of 2, passed in two
\* different orders starting with different entries; each run recorded the
\* one sampled distance.
C7_Witness ==
    /\ BothRan
    /\ opts.OpticalHistogramMax = 2 /\ Len(opts.OpticalHistogram) > 0
    /\ group = {3, 5, 8}
    /\ order[1][1] # order[2][1]
    /\ ~metrics[1].fatal
    /\ BagCardinality(metrics[1].recorded) = 1
    /\ BagCardinality(metrics[2].recorded) = 1

\* What a run is expected to record, stated on the entries in the order the
\* histogram loop sees them.
SameBucket(d, e) ==
    /\ LocationOf[d].loc.Lane = LocationOf[e].loc.Lane
    /\ d.readGroup = e.readGroup
    /\ d.readGroupFound = e.readGroupFound
    /\ d.orientation = e.orientation
\* The position of entry i within its bucket.
RankInBucket(arr, i) == Cardinality({k \in 1..i : SameBucket(arr[k], arr[i])})
SampledPairs(arr, cap) ==
    {ij \in (1..Len(arr)) \X (1..Len(arr)) :
        /\ ij[1] < ij[2]
        /\ SameBucket(arr[ij[1]], arr[ij[2]])
        /\ cap < 0 \/ RankInBucket(arr, ij[2]) <= cap}
ExpectedRecorded(arr, cap) ==
    LET value(ij) ==
            <<Cardinality(group),
              opticalDistance(LocationOf[arr[ij[1]]].loc, LocationOf[arr[ij[2]]].loc)>>
        pairsOf == SampledPairs(arr, cap)
    IN  [v \in {value(ij) : ij \in pairsOf} |->
            Cardinality({ij \in pairsOf : value(ij) = v})]

Init == InitPair \/ InitParse \/ InitDist \/ InitTags \/ InitOptical
Next == NextPair \/ NextParse \/ NextDist \/ NextTags \/ NextOptical
Spec == Init /\ [][Next]_vars
====
